---- MODULE Spec2Model ----
(***************************************************************************)
(* A model of the pipeline runner of go-do (do/do.go): Run, the stages it  *)
(* threads a value through, the variable store, the tracked files and the  *)
(* end-of-run cleanup, and the #{name} substitution done by Exec.          *)
(*                                                                         *)
(* Text (Go string and []byte) is a sequence of one-character strings; a   *)
(* file path is text too, with the temporary-file prefix as one token.     *)
(* A Go interface{} value is a record tagged by its dynamic type in t.     *)
(* The stages of the pipeline are revealed one at a time as the range loop *)
(* of Run reaches them.                                                    *)
(***************************************************************************)
EXTENDS Integers, Sequences, FiniteSets, TLC

\* ----------------------------------------------------------------- bounds
\* the longest pipeline handed to Run
MaxStages == 5
\* the bytes a pipe between a command and doExecute holds
PipeCap == 1

\* ------------------------------------------------------------- constants
temporaryFilePrefix == "godo-temporary-file"

Letters ==
    {"a","b","c","d","e","f","g","h","i","j","k","l","m",
     "n","o","p","q","r","s","t","u","v","w","x","y","z",
     "A","B","C","D","E","F","G","H","I","J","K","L","M",
     "N","O","P","Q","R","S","T","U","V","W","X","Y","Z"}

content == <<"c","o","n","t","e","n","t">>
file == <<"f","i","l","e">>

\* ------------------------------------------------------------------ text
\* fmt.Sprintf("#{%s}", varName)
Placeholder(varName) == <<"#","{">> \o varName \o <<"}">>

\* strings.HasPrefix(s, prefix)
HasPrefix(s, prefix) ==
    /\ Len(s) >= Len(prefix)
    /\ SubSeq(s, 1, Len(prefix)) = prefix

\* strings.Replace(s, old, new, -1) for a non-empty old: the non-overlapping
\* occurrences of old, found left to right, are replaced by new
RECURSIVE Replace(_, _, _)
Replace(s, old, new) ==
    IF Len(s) < Len(old) THEN s
    ELSE IF HasPrefix(s, old)
         THEN new \o Replace(SubSeq(s, Len(old) + 1, Len(s)), old, new)
         ELSE <<Head(s)>> \o Replace(Tail(s), old, new)

\* strings.Contains(s, sub)
RECURSIVE Contains(_, _)
Contains(s, sub) ==
    IF Len(s) < Len(sub) THEN FALSE
    ELSE HasPrefix(s, sub) \/ Contains(Tail(s), sub)

\* name without its trailing slashes
RECURSIVE StripSlashes(_)
StripSlashes(name) ==
    IF name # <<>> /\ name[Len(name)] = "/"
    THEN StripSlashes(SubSeq(name, 1, Len(name) - 1))
    ELSE name

\* the text after the last slash of name
RECURSIVE AfterLastSlash(_)
AfterLastSlash(name) ==
    IF \E k \in 1..Len(name) : name[k] = "/"
    THEN AfterLastSlash(Tail(name))
    ELSE name

\* path.Base(name): the last element of name, trailing slashes removed
\* first; "." for the empty name and "/" for a name of slashes only
Base(name) ==
    IF name = <<>> THEN <<".">>
    ELSE LET elem == AfterLastSlash(StripSlashes(name))
         IN IF elem = <<>> THEN <<"/">> ELSE elem

\* strings.HasPrefix(path.Base(f.Name()), temporaryFilePrefix)
IsTemporaryName(name) == HasPrefix(Base(name), <<temporaryFilePrefix>>)

\* ---------------------------------------------------------------- values
Nil == [t |-> "nil"]
String(s) == [t |-> "string", s |-> s]
Bytes(s) == [t |-> "bytes", s |-> s]
\* a *os.File; h indexes handles, 0 is the nil pointer
File(h) == [t |-> "file", h |-> h]
Struct == [t |-> "struct"]
\* type save struct
Save(varName, val) == [t |-> "save", Var |-> varName, Val |-> val]
\* type interceptExec struct
InterceptExec(in, vs) == [t |-> "interceptExec", Input |-> in, Vars |-> vs]

NilErr == [kind |-> "nil"]
Err(msg) == [kind |-> "error", msg |-> msg]
ErrDuplicate(varName) == [kind |-> "error", msg |-> "variable: %s already exists", arg |-> varName]
ErrInvalidName ==
    Err("not a valid variable name, must match: [a-zA-Z] (excluding: content, file)")
ErrInput == Err("provided input must be string or []byte")
ErrReplace ==
    Err("don't know how to replace content, required: string, []byte or *os.File")
ErrNotIntercepted == Err("exec command wasn't intercepted")
ErrExit == Err("exit status 127")
ErrUser == Err("user stage failed")
ErrCreate == Err("create temporary file")
ErrWrite == Err("write")
ErrOpen == Err("open")
\* the errors of the cleanup operations
ErrClosed(h) == [kind |-> "error", msg |-> "close: file already closed", arg |-> h]
ErrCloseIO(h) == [kind |-> "error", msg |-> "close: input/output error", arg |-> h]
ErrNotExist(h) == [kind |-> "error", msg |-> "remove: no such file or directory", arg |-> h]
ErrRemoveIO(h) == [kind |-> "error", msg |-> "remove: operation not permitted", arg |-> h]

\* ----------------------------------------------------------------- pools
\* the names given to SaveInVar
VarNames == {<<"a">>, <<"b">>, content, file, <<"a","1">>, <<>>}
\* the values given to Insert
InsertVals == {Nil, String(<<"X">>), String(Placeholder(<<"a">>)), Struct}
\* the file names given to WriteFile and LoadFileHandler: one in a directory
\* that has the temporary prefix, one whose own name has it
PathPool ==
    {<<"/",temporaryFilePrefix,"/","out">>,
     <<"/","d","/",temporaryFilePrefix,"-mine">>}
\* a directory, named with a trailing slash
DirPool == {<<"/","d","/",temporaryFilePrefix,"-dir","/">>}
\* the names given to LoadFileHandler: a file and the directory
LoadPool == {<<"/",temporaryFilePrefix,"/","out">>} \cup DirPool
\* what a command may print on its standard output
OutPool == {<<"Z">>, Placeholder(<<"b">>)}
\* the Exec stage values of the pipeline and the template each was built with
Templates ==
    <<Placeholder(<<"a">>) \o <<"-">> \o Placeholder(content) \o <<"-">>
          \o Placeholder(<<"b">>),
      <<"c","a","t"," ">> \o Placeholder(file) \o <<" ">>
          \o Placeholder(<<"n","o","p","e">>)>>
ExecIds == 1..Len(Templates)

\* ----------------------------------------------------------------- state
VARIABLES
    phase,            \* where Run is: "exec", "close", "remove", "done"
    i,                \* the number of stages invoked so far
    input,            \* Run's named result input
    err,              \* Run's named result err
    vars,             \* Run's vars: variable name -> value
    closeFiles,       \* Run's closeFiles, file handles
    removeTempFiles,  \* Run's removeTempFiles, file handles
    ci,               \* the position of the running cleanup loop
    handles,          \* the *os.File objects made so far: name, open, and
                      \* the stage that made it
    disk,             \* the names that exist in the file system
    cmd,              \* the cmd variable captured by each Exec closure
    last,             \* history: the last stage invocation
    execLog,          \* history: the last substitution done by Exec
    stageErr,         \* history: err when the stage loop was left
    log,              \* history: the cleanup operations attempted
    stack             \* the Runs suspended in a Split stage, innermost first

\* the state of one doExecute call; out and err index the two streams
VARIABLES
    xpc,              \* where doExecute is: "start", "wait", "check", "returned"
    pstat,            \* the command: "none", "running", "exited"
    exitCode,         \* the exit status the command ends with
    todo,             \* the bytes the command has still to write, per stream
    pipe,             \* the bytes in each pipe
    rclosed,          \* whether the read end of each pipe is closed
    drain,            \* each copying goroutine: "none", "copying" (in Read),
                      \* "writing" (in Write), "done"
    progress,         \* the progress writer: "Discard", or a "writer" of the caller
    chunk,            \* the bytes io.Copy has read and not yet written
    derr,             \* errOut and errErr
    buff,             \* outBuff and errBuff
    xret,             \* what doExecute returned
    written,          \* history: the bytes the command wrote, per stream
    seen,             \* history: errOut and errErr as doExecute read them
    racy              \* history: doExecute read them while a copy still ran

runvars ==
    <<phase, i, input, err, vars, closeFiles, removeTempFiles, ci,
      handles, disk, cmd, last, execLog, stageErr, log, stack>>

xvars ==
    <<xpc, pstat, exitCode, todo, pipe, rclosed, drain, chunk, derr, buff,
      xret, written, seen, racy, progress>>

allvars == <<runvars, xvars>>

NoStage == [kind |-> "none"]
NoExec == [e |-> 0]

\* f.Name(), among the file objects hs
NameIn(hs, f) == hs[f.h].name
Name(f) == NameIn(handles, f)

\* the orders in which a range over a map with key set S may visit the keys
Orders(S) ==
    {o \in [1..Cardinality(S) -> S] :
        \A j, k \in 1..Cardinality(S) : j # k => o[j] # o[k]}

\* ---------------------------------------------------------------- stages
\* What a stage returns: out and err, the file system and the closure
\* variables as it leaves them, and the command it handed to doExecute.
Outcome(out, e, hs, dk, cm, ex) ==
    [out |-> out, err |-> e, handles |-> hs, disk |-> dk, cmd |-> cm, exec |-> ex]
Pure(out, e) == Outcome(out, e, handles, disk, cmd, NoExec)

\* Insert(val)
Insert(val, in) == {Pure(val, NilErr)}

\* regexp.Match("^[a-zA-Z]+$", varName)
Match(varName) ==
    /\ Len(varName) >= 1
    /\ \A k \in 1..Len(varName) : varName[k] \in Letters

\* a name check that forgets the reserved names
ValidVarName_PatternOnly(varName) == Match(varName)

\* the name check of SaveInVar
ValidVarName(varName) ==
    ~ (varName = content \/ varName = file \/ ~ Match(varName))

\* SaveInVar(varName)
SaveInVar(varName, in) ==
    IF ~ ValidVarName(varName)
    THEN {Pure(Nil, ErrInvalidName)}
    ELSE {Pure(Save(varName, in), NilErr)}

\* a user-provided stage that returns its input
Identity(in) == {Pure(in, NilErr)}

\* a user-provided stage that fails
Fail(in) == {Pure(Nil, ErrUser)}

\* ioutil.TempFile("", temporaryFilePrefix): a name no file has yet
TempName == <<"/","tmp","/",temporaryFilePrefix, ToString(Len(handles) + 1)>>

\* WriteTempFile
WriteTempFile(in) ==
    IF in.t \notin {"string", "bytes"}
    THEN {Pure(Nil, ErrInput)}
    ELSE LET h == Len(handles) + 1
             created(open) == Append(handles, [name |-> TempName, open |-> open, by |-> "WriteTempFile"])
         IN {\* ioutil.TempFile fails
             Pure(Nil, ErrCreate),
             \* f.Write fails: the file exists and stays open
             Outcome(Nil, ErrWrite, created(TRUE), disk \cup {TempName}, cmd, NoExec),
             \* f.Close fails
             Outcome(Nil, ErrCloseIO(h), created(FALSE), disk \cup {TempName}, cmd, NoExec),
             Outcome(File(h), NilErr, created(FALSE), disk \cup {TempName}, cmd, NoExec)}

\* WriteFile(toFile)
WriteFile(toFile, in) ==
    IF in.t \notin {"string", "bytes"}
    THEN {Pure(Nil, ErrInput)}
    ELSE IF StripSlashes(toFile) # toFile
    THEN \* a name with a trailing slash is not opened for writing
         {Pure(in, ErrWrite)}
    ELSE LET h == Len(handles) + 1
         IN {\* ioutil.WriteFile fails to open the file
             Pure(in, ErrWrite),
             \* ioutil.WriteFile fails to write or close the file it made
             Outcome(in, ErrWrite, handles, disk \cup {toFile}, cmd, NoExec),
             \* os.Open fails: a nil *os.File and the error
             Outcome(File(0), ErrOpen, handles, disk \cup {toFile}, cmd, NoExec),
             Outcome(File(h), NilErr,
                     Append(handles, [name |-> toFile, open |-> TRUE, by |-> "WriteFile"]),
                     disk \cup {toFile}, cmd, NoExec)}

\* LoadFileHandler(name, os.O_RDONLY, perm)
LoadFileHandler(name, in) ==
    IF name \notin disk
    THEN {Pure(File(0), ErrOpen)}
    ELSE {Pure(File(0), ErrOpen),
          Outcome(File(Len(handles) + 1), NilErr,
                  Append(handles, [name |-> name, open |-> TRUE, by |-> "LoadFileHandler"]),
                  disk, cmd, NoExec)}

\* ------------------------------------------------------------------ Exec
\* a replaceVar that leaves the command alone for a value it cannot print
replaceVar_Skip(c, varName, with) ==
    IF with.t \in {"bytes", "string"}
    THEN [cmd |-> Replace(c, Placeholder(varName), with.s), err |-> NilErr]
    ELSE IF with.t = "file"
    THEN [cmd |-> Replace(c, Placeholder(varName), Name(with)), err |-> NilErr]
    ELSE [cmd |-> c, err |-> NilErr]

\* replaceVar(cmd, varName, with): the new command text and the error
replaceVar(c, varName, with) ==
    IF with.t \in {"bytes", "string"}
    THEN [cmd |-> Replace(c, Placeholder(varName), with.s), err |-> NilErr]
    ELSE IF with.t = "file"
    THEN [cmd |-> Replace(c, Placeholder(varName), Name(with)), err |-> NilErr]
    ELSE [cmd |-> <<>>, err |-> ErrReplace]

\* the switch of Exec on the input of the stage before it
ReplaceAmbient(c, d) ==
    IF d.t \in {"bytes", "string"} THEN Replace(c, Placeholder(content), d.s)
    ELSE IF d.t = "file" THEN Replace(c, Placeholder(file), Name(d))
    ELSE c

\* the loop of Exec over data.Vars, visiting the names in the given order;
\* cmd and err are assigned together, so a failure leaves the empty text
RECURSIVE ReplaceVars(_, _, _)
ReplaceVars(c, vs, order) ==
    IF order = <<>> THEN [cmd |-> c, err |-> NilErr]
    ELSE LET r == replaceVar(c, Head(order), vs[Head(order)])
         IN IF r.err # NilErr THEN r ELSE ReplaceVars(r.cmd, vs, Tail(order))

\* doExecute(progress, command): what the command printed, or the failure to
\* start it or its exit status, or, when a copy of its output failed, nil
\* together with the nil err of cmd.Wait
doExecute(command) ==
    {[out |-> Bytes(b), err |-> NilErr] : b \in OutPool}
        \cup {[out |-> Nil, err |-> ErrExit], [out |-> Nil, err |-> NilErr]}

\* the record of one substitution: the Exec stage, its template, the text of
\* its cmd variable when invoked, what it was given, the resolved text and
\* whether it was handed to doExecute
ExecRecord(e, in, r) ==
    [e |-> e, template |-> Templates[e], before |-> cmd[e],
     ambient |-> in.Input, vars |-> in.Vars,
     resolved |-> r.cmd, ran |-> r.err = NilErr]

\* Exec(cmd), the e-th Exec stage value of the pipeline
Exec(e, in) ==
    IF in.t # "interceptExec"
    THEN {Pure(Nil, ErrNotIntercepted)}
    ELSE UNION {
           LET r == ReplaceVars(ReplaceAmbient(cmd[e], in.Input), in.Vars, order)
               cm == [cmd EXCEPT ![e] = r.cmd]
           IN IF r.err # NilErr
              THEN {Outcome(Nil, r.err, handles, disk, cm, ExecRecord(e, in, r))}
              ELSE {Outcome(x.out, x.err, handles, disk, cm, ExecRecord(e, in, r))
                      : x \in doExecute(r.cmd)}
           : order \in Orders(DOMAIN in.Vars)}

\* ------------------------------------------------------------------- Run
\* the stages a pipeline is made of
Stage(kind, arg) == [kind |-> kind, arg |-> arg]

\* stageFn(input, progress)
StageFn(st, in) ==
    CASE st.kind = "Insert" -> Insert(st.arg, in)
      [] st.kind = "SaveInVar" -> SaveInVar(st.arg, in)
      [] st.kind = "WriteTempFile" -> WriteTempFile(in)
      [] st.kind = "WriteFile" -> WriteFile(st.arg, in)
      [] st.kind = "LoadFileHandler" -> LoadFileHandler(st.arg, in)
      [] st.kind = "Exec" -> Exec(st.arg, in)
      [] st.kind = "Identity" -> Identity(in)
      [] st.kind = "Fail" -> Fail(in)

\* the interception of Run: an Exec stage gets its input wrapped
Intercept(st, in, vs) ==
    IF st.kind = "Exec" THEN InterceptExec(in, vs) ELSE in

\* a runner that unwraps the binding marker before carrying it on
Thread_Unwrap(prev, out) == IF out.t = "save" THEN out.Val ELSE out

\* a runner that keeps the previous value when a stage returns nil
Thread_KeepOnNil(prev, out) == IF out = Nil THEN prev ELSE out

\* input, err = stageFn(input, progress): the value carried on
Thread(prev, out) == out

\* where Run goes when it leaves the stage loop
AfterBreak == "close"

\* a runner without the duplicate check
HasKey_Never(vs, varName) == FALSE

\* _, hasKey := vars[f.Var]
HasKey(vs, varName) == varName \in DOMAIN vs

\* vars[f.Var] = f.Val
Bind(vs, f) ==
    [n \in DOMAIN vs \cup {f.Var} |-> IF n = f.Var THEN f.Val ELSE vs[n]]

\* a cleanup that keeps the error Run already has
CleanupErr_KeepFirst(prev, res) == IF prev # NilErr THEN prev ELSE res

\* err = f.Close() and err = os.Remove(f.Name()): what err becomes
CleanupErr(prev, res) == res

\* the state at the entry of Run
RunInit ==
    /\ phase = "exec"
    /\ i = 0
    /\ input = Nil
    /\ err = NilErr
    /\ vars = <<>>
    /\ closeFiles = <<>>
    /\ removeTempFiles = <<>>
    /\ ci = 1
    /\ handles = <<>>
    /\ disk \in {DirPool, PathPool \cup DirPool}
    /\ cmd = Templates
    /\ last = NoStage
    /\ execLog = NoExec
    /\ stageErr = NilErr
    /\ log = <<>>
    /\ stack = <<>>

Streams == {"out", "err"}

\* no doExecute call is under way
XIdle ==
    /\ xpc = "start"
    /\ pstat = "none"
    /\ exitCode = 0
    /\ todo = [s \in Streams |-> 0]
    /\ pipe = [s \in Streams |-> <<>>]
    /\ rclosed = [s \in Streams |-> FALSE]
    /\ drain = [s \in Streams |-> "none"]
    /\ chunk = [s \in Streams |-> <<>>]
    /\ derr = [s \in Streams |-> NilErr]
    /\ buff = [s \in Streams |-> <<>>]
    /\ xret = [out |-> Nil, err |-> NilErr]
    /\ written = [s \in Streams |-> <<>>]
    /\ seen = [s \in Streams |-> NilErr]
    /\ racy = FALSE
    /\ progress = "Discard"

Init == RunInit /\ XIdle

\* one iteration of the stage loop of Run with stage st
RunStage(st) ==
    /\ UNCHANGED xvars
    /\ phase = "exec"
    /\ i < MaxStages
    /\ \E o \in StageFn(st, Intercept(st, input, vars)) :
         LET f == Thread(input, o.out)
             failed == o.err # NilErr
             duplicate == ~ failed /\ f.t = "save" /\ HasKey(vars, f.Var)
             e == IF failed THEN o.err
                  ELSE IF duplicate THEN ErrDuplicate(f.Var) ELSE NilErr
         IN /\ input' = f
            /\ err' = e
            /\ i' = i + 1
            /\ handles' = o.handles
            /\ disk' = o.disk
            /\ cmd' = o.cmd
            /\ execLog' = o.exec
            /\ last' = [kind |-> st.kind, arg |-> st.arg, in |-> input,
                        out |-> o.out, err |-> o.err]
            /\ IF failed \/ duplicate
               THEN /\ phase' = AfterBreak
                    /\ stageErr' = e
                    /\ UNCHANGED <<vars, closeFiles, removeTempFiles>>
               ELSE /\ UNCHANGED <<phase, stageErr>>
                    /\ IF f.t = "file"
                       THEN IF IsTemporaryName(NameIn(o.handles, f))
                            THEN /\ removeTempFiles' = Append(removeTempFiles, f.h)
                                 /\ UNCHANGED <<closeFiles, vars>>
                            ELSE /\ closeFiles' = Append(closeFiles, f.h)
                                 /\ UNCHANGED <<removeTempFiles, vars>>
                       ELSE IF f.t = "save"
                       THEN /\ vars' = Bind(vars, f)
                            /\ UNCHANGED <<closeFiles, removeTempFiles>>
                       ELSE UNCHANGED <<vars, closeFiles, removeTempFiles>>
    /\ UNCHANGED <<ci, log, stack>>

\* the range loop of Run has no stage left
EndOfStages ==
    /\ UNCHANGED xvars
    /\ phase = "exec"
    /\ phase' = AfterBreak
    /\ UNCHANGED <<i, input, err, vars, closeFiles, removeTempFiles, ci,
                   handles, disk, cmd, last, execLog, stageErr, log, stack>>

\* f.Close(): the error, and whether the handle is open afterwards
Close(h) ==
    IF ~ handles[h].open
    THEN {[err |-> ErrClosed(h), open |-> FALSE]}
    ELSE {[err |-> NilErr, open |-> FALSE], [err |-> ErrCloseIO(h), open |-> FALSE]}

\* os.Remove(name) for the file of handle h: the error and the names left
Remove(h) ==
    LET name == handles[h].name
    IN IF name \notin disk
       THEN {[err |-> ErrNotExist(h), disk |-> disk]}
       ELSE {[err |-> NilErr, disk |-> disk \ {name}],
             [err |-> ErrRemoveIO(h), disk |-> disk]}

\* one iteration of the loop over closeFiles
CloseFile ==
    /\ UNCHANGED xvars
    /\ phase = "close"
    /\ ci <= Len(closeFiles)
    /\ \E r \in Close(closeFiles[ci]) :
         LET e == CleanupErr(err, r.err)
         IN /\ err' = e
            /\ handles' = [handles EXCEPT ![closeFiles[ci]].open = r.open]
            /\ log' = Append(log, [op |-> "close", h |-> closeFiles[ci], err |-> r.err])
            /\ IF e # NilErr
               THEN phase' = "done" /\ ci' = ci
               ELSE phase' = phase /\ ci' = ci + 1
    /\ UNCHANGED <<i, input, vars, closeFiles, removeTempFiles, disk, cmd,
                   last, execLog, stageErr, stack>>

\* the loop over closeFiles is over
CloseDone ==
    /\ UNCHANGED xvars
    /\ phase = "close"
    /\ ci > Len(closeFiles)
    /\ phase' = "remove"
    /\ ci' = 1
    /\ UNCHANGED <<i, input, err, vars, closeFiles, removeTempFiles,
                   handles, disk, cmd, last, execLog, stageErr, log, stack>>

\* one iteration of the loop over removeTempFiles
RemoveTempFile ==
    /\ UNCHANGED xvars
    /\ phase = "remove"
    /\ ci <= Len(removeTempFiles)
    /\ \E r \in Remove(removeTempFiles[ci]) :
         LET e == CleanupErr(err, r.err)
         IN /\ err' = e
            /\ disk' = r.disk
            /\ log' = Append(log, [op |-> "remove", h |-> removeTempFiles[ci], err |-> r.err])
            /\ IF e # NilErr
               THEN phase' = "done" /\ ci' = ci
               ELSE phase' = phase /\ ci' = ci + 1
    /\ UNCHANGED <<i, input, vars, closeFiles, removeTempFiles, handles, cmd,
                   last, execLog, stageErr, stack>>

\* the final return of Run
Return ==
    /\ UNCHANGED xvars
    /\ phase = "remove"
    /\ ci > Len(removeTempFiles)
    /\ phase' = "done"
    /\ UNCHANGED <<i, input, err, vars, closeFiles, removeTempFiles, ci,
                   handles, disk, cmd, last, execLog, stageErr, log, stack>>

RunInsert == \E v \in InsertVals : RunStage(Stage("Insert", v))
RunSaveInVar == \E n \in VarNames : RunStage(Stage("SaveInVar", n))
RunWriteTempFile == RunStage(Stage("WriteTempFile", <<>>))
RunWriteFile == \E p \in PathPool : RunStage(Stage("WriteFile", p))
RunLoadFileHandler ==
    \E p \in LoadPool : RunStage(Stage("LoadFileHandler", p))
RunExec == \E e \in ExecIds : RunStage(Stage("Exec", e))
RunIdentity == RunStage(Stage("Identity", <<>>))
RunFail == RunStage(Stage("Fail", <<>>))

Next ==
    \/ RunInsert
    \/ RunSaveInVar
    \/ RunWriteTempFile
    \/ RunWriteFile
    \/ RunLoadFileHandler
    \/ RunExec
    \/ RunIdentity
    \/ RunFail
    \/ EndOfStages
    \/ CloseFile
    \/ CloseDone
    \/ RemoveTempFile
    \/ Return

Spec == Init /\ [][Next]_allvars

\* -------------------------------------------------------------- doExecute
\* the most a command writes to one stream: more than a pipe holds
MaxWrite == PipeCap + 2

ErrSpawn == Err("exec: command could not be started")
ErrPipeClosed == Err("read: file already closed")
ErrSink == Err("progress: write failed")

\* the entry of doExecute for a command that will write todo[s] bytes to each
\* stream and then exit with exitCode
\* what Run hands to its stages as progress: ioutil.Discard when it was given
\* nil, else the writer of the caller
Progress == {"Discard", "writer"}

XInit ==
    /\ xpc = "start"
    /\ pstat = "none"
    /\ exitCode \in {0, 1}
    /\ todo \in [Streams -> 0..MaxWrite]
    /\ pipe = [s \in Streams |-> <<>>]
    /\ rclosed = [s \in Streams |-> FALSE]
    /\ drain = [s \in Streams |-> "none"]
    /\ chunk = [s \in Streams |-> <<>>]
    /\ derr = [s \in Streams |-> NilErr]
    /\ buff = [s \in Streams |-> <<>>]
    /\ xret = [out |-> Nil, err |-> NilErr]
    /\ written = [s \in Streams |-> <<>>]
    /\ seen = [s \in Streams |-> NilErr]
    /\ racy = FALSE
    /\ progress \in Progress

\* os.Getwd, the two pipes and cmd.Start, then the two go statements
XStart ==
    /\ xpc = "start"
    /\ \/ /\ xpc' = "returned"
          /\ xret' = [out |-> Nil, err |-> ErrSpawn]
          /\ UNCHANGED <<pstat, drain>>
       \/ /\ xpc' = "wait"
          /\ pstat' = "running"
          /\ drain' = [s \in Streams |-> "copying"]
          /\ UNCHANGED xret
    /\ UNCHANGED <<exitCode, todo, pipe, rclosed, chunk, derr, buff, written,
                   seen, racy>>
    /\ UNCHANGED <<progress, runvars>>

\* the command writes one byte to stream s; it blocks while the pipe is full
ProcWrite(s) ==
    /\ pstat = "running"
    /\ todo[s] > 0
    /\ Len(pipe[s]) < PipeCap
    /\ LET b == Len(written[s]) + 1
       IN /\ pipe' = [pipe EXCEPT ![s] = Append(@, b)]
          /\ written' = [written EXCEPT ![s] = Append(@, b)]
    /\ todo' = [todo EXCEPT ![s] = @ - 1]
    /\ UNCHANGED <<xpc, pstat, exitCode, rclosed, drain, chunk, derr, buff, xret,
                   seen, racy>>
    /\ UNCHANGED <<progress, runvars>>

\* the command has written everything and exits
ProcExit ==
    /\ pstat = "running"
    /\ \A s \in Streams : todo[s] = 0
    /\ pstat' = "exited"
    /\ UNCHANGED <<xpc, exitCode, todo, pipe, rclosed, drain, chunk, derr, buff,
                   xret, written, seen, racy>>
    /\ UNCHANGED <<progress, runvars>>

\* src.Read of io.Copy in the goroutine of stream s: the bytes of the pipe
\* go to the buffer of io.Copy, or the copy ends; the assignment to errOut or
\* errErr ends the goroutine
DrainRead(s) ==
    /\ drain[s] = "copying"
    /\ \/ \* the read end was closed under the copy
          /\ rclosed[s]
          /\ derr' = [derr EXCEPT ![s] = ErrPipeClosed]
          /\ drain' = [drain EXCEPT ![s] = "done"]
          /\ UNCHANGED <<pipe, chunk>>
       \/ \* data
          /\ ~ rclosed[s]
          /\ pipe[s] # <<>>
          /\ pipe' = [pipe EXCEPT ![s] = <<>>]
          /\ chunk' = [chunk EXCEPT ![s] = pipe[s]]
          /\ drain' = [drain EXCEPT ![s] = "writing"]
          /\ UNCHANGED derr
       \/ \* end of file
          /\ ~ rclosed[s]
          /\ pipe[s] = <<>>
          /\ pstat = "exited"
          /\ derr' = [derr EXCEPT ![s] = NilErr]
          /\ drain' = [drain EXCEPT ![s] = "done"]
          /\ UNCHANGED <<pipe, chunk>>
    /\ UNCHANGED <<xpc, pstat, exitCode, todo, rclosed, buff, xret, written,
                   seen, racy>>
    /\ UNCHANGED <<progress, runvars>>

\* dst.Write of io.Copy, dst being io.MultiWriter(progress, buffer): progress
\* takes the bytes and then the buffer does, or the writer of the caller
\* fails (ioutil.Discard never does) and the buffer is not written; closed
\* pipes do not stop it
DrainWrite(s) ==
    /\ drain[s] = "writing"
    /\ \/ /\ buff' = [buff EXCEPT ![s] = @ \o chunk[s]]
          /\ drain' = [drain EXCEPT ![s] = "copying"]
          /\ UNCHANGED derr
       \/ /\ progress = "writer"
          /\ derr' = [derr EXCEPT ![s] = ErrSink]
          /\ drain' = [drain EXCEPT ![s] = "done"]
          /\ UNCHANGED buff
    /\ chunk' = [chunk EXCEPT ![s] = <<>>]
    /\ UNCHANGED <<xpc, pstat, exitCode, todo, pipe, rclosed, xret, written,
                   seen, racy>>
    /\ UNCHANGED <<progress, runvars>>

\* one step of the goroutine of stream s
Drain(s) == DrainRead(s) \/ DrainWrite(s)

\* cmd.Wait(): returns once the command has exited and closes the read ends
\* of the pipes; a non-zero exit status is returned at once
XWait ==
    /\ xpc = "wait"
    /\ pstat = "exited"
    /\ rclosed' = [s \in Streams |-> TRUE]
    /\ IF exitCode # 0
       THEN xpc' = "returned" /\ xret' = [out |-> Nil, err |-> ErrExit]
       ELSE xpc' = "check" /\ UNCHANGED xret
    /\ UNCHANGED <<pstat, exitCode, todo, pipe, drain, chunk, derr, buff, written,
                   seen, racy>>
    /\ UNCHANGED <<progress, runvars>>

\* what doExecute returns after a successful Wait, given errOut, errErr and
\* outBuff as it reads them: err is the nil error of Wait in both cases
XResult(eOut, eErr, out) ==
    IF eOut # NilErr \/ eErr # NilErr
    THEN [out |-> Nil, err |-> NilErr]
    ELSE [out |-> Bytes(out), err |-> NilErr]

\* what an unsynchronised outBuff.Bytes() can give: the buffer, or, while
\* the goroutine is in its Write, the buffer with the bytes of that Write
BuffViews ==
    {buff["out"]} \cup
        (IF drain["out"] = "writing" THEN {buff["out"] \o chunk["out"]} ELSE {})

\* the test of errOut and errErr and the return of outBuff.Bytes(), with no
\* synchronisation with the two goroutines
XCheck ==
    /\ xpc = "check"
    /\ xpc' = "returned"
    /\ \E view \in BuffViews : xret' = XResult(derr["out"], derr["err"], view)
    /\ seen' = derr
    /\ racy' = \E s \in Streams : drain[s] # "done"
    /\ UNCHANGED <<pstat, exitCode, todo, pipe, rclosed, drain, chunk, derr, buff,
                   written>>
    /\ UNCHANGED <<progress, runvars>>

ProcWrites == \E s \in Streams : ProcWrite(s)
Drains == \E s \in Streams : Drain(s)

NextExec ==
    \/ XStart
    \/ ProcWrites
    \/ ProcExit
    \/ Drains
    \/ XWait
    \/ XCheck

InitExec == RunInit /\ disk = DirPool /\ XInit

SpecExec == InitExec /\ [][NextExec]_allvars

\* the Go scheduler runs every goroutine that can run and the operating
\* system runs the command
SpecExecFair ==
    /\ SpecExec
    /\ WF_allvars(XStart)
    /\ WF_allvars(XWait)
    /\ WF_allvars(XCheck)
    /\ WF_allvars(ProcExit)
    /\ \A s \in Streams : WF_allvars(ProcWrite(s)) /\ WF_allvars(Drain(s))

\* ----------------------------------------------------------------- Split
\* the stages each Run of a pipeline with a Split is given, and how deep
\* Split stages nest
MaxSplitStages == 3
MaxDepth == 1

SplitResult(l, r) == [t |-> "SplitResult", Left |-> l, Right |-> r]

\* vars := map[string]interface{}{} at the entry of a nested Run
NestedVars(vs) == <<>>

\* The Run that waits in a Split stage: its locals, the branch that is
\* running and the result l of the left branch; history: the error that
\* ended the stage loop of the left branch, and the store the left branch had
Frame(side, l, lerr, lvars) ==
    [i |-> i, input |-> input, vars |-> vars, closeFiles |-> closeFiles,
     removeTempFiles |-> removeTempFiles,
     side |-> side, l |-> l, lerr |-> lerr, lvars |-> lvars]

\* the entry of a nested Run
EnterRun ==
    /\ phase' = "exec"
    /\ i' = 0
    /\ input' = Nil
    /\ err' = NilErr
    /\ vars' = NestedVars(vars)
    /\ closeFiles' = <<>>
    /\ removeTempFiles' = <<>>
    /\ ci' = 1
    /\ last' = NoStage
    /\ execLog' = NoExec
    /\ stageErr' = NilErr
    /\ log' = <<>>
    /\ UNCHANGED <<handles, disk, cmd>>

\* the Split stage, the last stage of the outermost pipeline, is invoked:
\* Run(progress, Insert(input), left...)
SplitLeft ==
    /\ UNCHANGED xvars
    /\ phase = "exec"
    /\ i = MaxSplitStages - 1
    /\ Len(stack) < MaxDepth
    /\ stack' = <<Frame("left", Nil, NilErr, <<>>)>> \o stack
    /\ EnterRun

\* the left Run returned without error: Run(progress, Insert(input), right...)
SplitRight ==
    /\ UNCHANGED xvars
    /\ stack # <<>>
    /\ Head(stack).side = "left"
    /\ phase = "done"
    /\ err = NilErr
    /\ stack' = <<[Head(stack) EXCEPT !.side = "right", !.l = input,
                                      !.lerr = stageErr, !.lvars = vars]>>
                    \o Tail(stack)
    /\ EnterRun

\* the Split stage returns out and e to the Run that invoked it, which goes
\* on from there as after any stage
Resume(out, e) ==
    LET fr == Head(stack)
    IN /\ stack' = Tail(stack)
       /\ input' = Thread(fr.input, out)
       /\ err' = e
       /\ i' = fr.i + 1
       /\ vars' = fr.vars
       /\ closeFiles' = fr.closeFiles
       /\ removeTempFiles' = fr.removeTempFiles
       /\ ci' = 1
       /\ execLog' = NoExec
       /\ log' = <<>>
       /\ last' = [kind |-> "Split", arg |-> <<>>, in |-> fr.input,
                   out |-> out, err |-> e, side |-> fr.side,
                   l |-> IF fr.side = "left" THEN input ELSE fr.l,
                   lerr |-> IF fr.side = "left" THEN stageErr ELSE fr.lerr,
                   lclean |-> fr.side = "left" /\ \E j \in DOMAIN log : log[j].err # NilErr,
                   r |-> IF fr.side = "right" THEN input ELSE Nil,
                   rerr |-> IF fr.side = "right" THEN stageErr ELSE NilErr,
                   rclean |-> fr.side = "right" /\ \E j \in DOMAIN log : log[j].err # NilErr]
       /\ IF e # NilErr
          THEN phase' = AfterBreak /\ stageErr' = e
          ELSE phase' = "exec" /\ stageErr' = NilErr
       /\ UNCHANGED <<handles, disk, cmd>>

\* a nested Run returned an error: return input, err
SplitError ==
    /\ UNCHANGED xvars
    /\ stack # <<>>
    /\ phase = "done"
    /\ err # NilErr
    /\ Resume(Head(stack).input, err)

\* the right Run returned without error: return SplitResult{l, r}, nil
SplitReturn ==
    /\ UNCHANGED xvars
    /\ stack # <<>>
    /\ Head(stack).side = "right"
    /\ phase = "done"
    /\ err = NilErr
    /\ Resume(SplitResult(Head(stack).l, input), NilErr)

\* the first stage of a nested Run is Insert(input)
BranchInsert ==
    /\ stack # <<>>
    /\ i = 0
    /\ RunStage(Stage("Insert", Head(stack).input))

\* the stages after it, and the stages of the outermost Run
PipeStage(st) ==
    /\ stack # <<>> => i > 0
    /\ i < MaxSplitStages
    /\ RunStage(st)

PipeInsert == PipeStage(Stage("Insert", String(<<"X">>)))
PipeSaveInVar == PipeStage(Stage("SaveInVar", <<"a">>))
PipeWriteTempFile == PipeStage(Stage("WriteTempFile", <<>>))
PipeLoadFileHandler == \E p \in PathPool : PipeStage(Stage("LoadFileHandler", p))
PipeExec == PipeStage(Stage("Exec", 1))
PipeFail == PipeStage(Stage("Fail", <<>>))
PipeEnd == (stack # <<>> => i > 0) /\ EndOfStages

NextSplit ==
    \/ PipeInsert
    \/ PipeSaveInVar
    \/ PipeWriteTempFile
    \/ PipeLoadFileHandler
    \/ PipeExec
    \/ PipeFail
    \/ PipeEnd
    \/ SplitLeft
    \/ BranchInsert
    \/ SplitRight
    \/ SplitError
    \/ SplitReturn
    \/ CloseFile
    \/ CloseDone
    \/ RemoveTempFile
    \/ Return

InitSplit == Init /\ disk = PathPool \cup DirPool

SpecSplit == InitSplit /\ [][NextSplit]_allvars

\* ---------------------------------------------------------------- claims
Returned == phase = "done"
\* the handles Run tracks, in the order cleanup visits them
Tracked == closeFiles \o removeTempFiles
\* the cleanup operations attempted on handle h, and those that succeeded
Attempts(h) == {j \in DOMAIN log : log[j].h = h}
Releases(h) == {j \in Attempts(h) : log[j].err = NilErr}
CleanupFailed == \E j \in DOMAIN log : log[j].err # NilErr
\* the files made by WriteTempFile
TempFiles == {h \in DOMAIN handles : handles[h].by = "WriteTempFile"}

\* C1: when a stage fails (or a binding is a duplicate) and every cleanup
\* operation succeeds, Run returns the error of that stage, however many
\* files were tracked before the failure.
C1_StageErrorReturned ==
    (Returned /\ stageErr # NilErr /\ ~ CleanupFailed) => err = stageErr

\* C2: when Run has returned, every temporary file a stage created has been
\* deleted exactly once and none is left in the file system, whether the
\* stages succeeded or one failed.
C2_TempFilesDeleted ==
    Returned =>
        \A h \in TempFiles :
            /\ handles[h].name \notin disk
            /\ Cardinality(Releases(h)) = 1

\* C3: a file returned by a successful stage is tracked from that moment, and
\* when Run has returned every tracked file has been released exactly once.
C3_ReleasedExactlyOnce ==
    /\ (last.kind # "none" /\ last.err = NilErr /\ last.out.t = "file")
          => \E k \in DOMAIN Tracked : Tracked[k] = last.out.h
    /\ Returned =>
          \A k \in DOMAIN Tracked :
              /\ Cardinality(Attempts(Tracked[k])) = 1
              /\ Cardinality(Releases(Tracked[k])) = 1

\* the cleanup has visited every tracked file, in order
CleanupRan ==
    /\ Len(log) = Len(Tracked)
    /\ \A j \in DOMAIN log : log[j].h = Tracked[j]

\* C4: once a stage has failed or a binding was a duplicate, Run has left the
\* stage loop and invokes no further stage, and it does not return before
\* the cleanup has run over every file tracked so far.
C4_FailFastThenCleanup ==
    /\ [](stageErr # NilErr => phase # "exec")
    /\ []((Returned /\ stageErr # NilErr) => CleanupRan)
    /\ [][phase # "exec" => (i' = i /\ last' = last /\ phase' # "exec")]_allvars

\* C5: a cleanup operation that fails ends Run, and the error Run returns is
\* the error of that operation, also when a stage had failed before.
C5_CleanupErrorReturned ==
    \A j \in DOMAIN log :
        log[j].err # NilErr => (Returned /\ err = log[j].err)

C5_Witness ==
    /\ Returned
    /\ stageErr # NilErr
    /\ CleanupFailed
    /\ err # stageErr

\* C6: a stage that binds a name which is already bound makes Run fail with
\* the duplicate-variable error for that name and leave the stage loop, and
\* no step of Run changes the value of a bound name.
C6_VariableImmutable ==
    /\ [][(i' = i + 1 /\ last'.err = NilErr /\ last'.out.t = "save"
             /\ last'.out.Var \in DOMAIN vars)
          => (/\ err' = ErrDuplicate(last'.out.Var)
              /\ phase' # "exec"
              /\ vars' = vars)]_allvars
    /\ [][\A n \in DOMAIN vars : n \in DOMAIN vars' /\ vars'[n] = vars[n]]_allvars

C6_Witness ==
    /\ Returned
    /\ \E n \in DOMAIN vars :
          /\ stageErr = ErrDuplicate(n)
          /\ last.out = Save(n, last.in)
          /\ last.in # vars[n]

\* a name SaveInVar accepts
Acceptable(n) ==
    /\ n # <<>>
    /\ \A k \in DOMAIN n : n[k] \in Letters
    /\ n # content
    /\ n # file

\* C7: a SaveInVar stage with a name outside ^[a-zA-Z]+$, or named content
\* or file, fails with the invalid-name message and binds nothing; every
\* bound name is acceptable.
C7_OnlyValidNamesBound ==
    /\ \A n \in DOMAIN vars : Acceptable(n)
    /\ (last.kind = "SaveInVar" /\ ~ Acceptable(last.arg))
          => /\ last.err = ErrInvalidName
             /\ stageErr = ErrInvalidName
             /\ phase # "exec"
             /\ last.arg \notin DOMAIN vars

C7_Witness ==
    /\ last.kind = "SaveInVar"
    /\ last.arg = content
    /\ DOMAIN vars = {<<"a">>, <<"b">>}
    /\ Returned

\* C8: after SaveInVar has bound a name, Run carries the binding marker
\* itself on; an Exec stage that gets the marker as its ambient value leaves
\* the #{content} and #{file} placeholders of its command in place.
C8_MarkerPassedOn ==
    /\ (last.kind = "SaveInVar" /\ last.err = NilErr)
          => input = Save(last.arg, last.in)
    /\ (last.kind = "Exec" /\ last.in.t = "save" /\ execLog.ran)
          => \A ph \in {Placeholder(content), Placeholder(file)} :
                Contains(execLog.before, ph) => Contains(execLog.resolved, ph)

C8_Witness ==
    /\ last.kind = "Exec"
    /\ last.in.t = "save"
    /\ last.in.Val.t = "string"
    /\ execLog.ran
    /\ Contains(execLog.before, Placeholder(content))

\* C9: when every stage of the pipeline has succeeded and the last one is not
\* an Exec stage, the value Run returns is the value that stage returned.
C9_LastValueReturned ==
    (Returned /\ stageErr = NilErr /\ last.kind \notin {"none", "Exec"})
        => input = last.out

C9_Witness ==
    /\ Returned
    /\ stageErr = NilErr
    /\ last.kind = "Insert"
    /\ last.out = Nil
    /\ last.in.t = "save"
    /\ log # <<>>

\* the text of value v when it replaces a placeholder
TextOf(v) == IF v.t = "file" THEN Name(v) ELSE v.s

\* the placeholders that have a replacement, given the ambient value d and
\* the variables vs, as pairs of placeholder and replacement
Replacements(d, vs) ==
    (IF d.t \in {"string", "bytes"} THEN {<<Placeholder(content), d.s>>}
     ELSE IF d.t = "file" THEN {<<Placeholder(file), Name(d)>>} ELSE {})
    \cup {<<Placeholder(n), TextOf(vs[n])>> : n \in DOMAIN vs}

\* template with every placeholder of rs replaced, in one pass over template
RECURSIVE Substituted(_, _)
Substituted(template, rs) ==
    IF template = <<>> THEN <<>>
    ELSE IF \E r \in rs : HasPrefix(template, r[1])
    THEN LET r == CHOOSE r \in rs : HasPrefix(template, r[1])
         IN r[2] \o Substituted(SubSeq(template, Len(r[1]) + 1, Len(template)), rs)
    ELSE <<Head(template)>> \o Substituted(Tail(template), rs)

\* C10: the command an Exec stage executes is its template with #{content},
\* #{file} and the #{name} of every bound variable replaced, and every other
\* placeholder left as it is.
C10_SubstitutionCorrect ==
    (execLog # NoExec /\ execLog.ran)
        => execLog.resolved
               = Substituted(execLog.template,
                             Replacements(execLog.ambient, execLog.vars))

\* C11: the text Exec's substitution produces does not depend on the order
\* in which the range over the variable store visits the bound names.
C11_OrderIndependent ==
    execLog # NoExec =>
        \A order \in Orders(DOMAIN execLog.vars) :
            ReplaceVars(ReplaceAmbient(execLog.before, execLog.ambient),
                        execLog.vars, order).cmd = execLog.resolved

\* C12: executing an Exec stage never changes its command template, so every
\* invocation substitutes into the template the stage was built with.
C12_TemplateImmutable ==
    /\ cmd = Templates
    /\ execLog # NoExec => execLog.before = execLog.template

\* a value replaceVar has no text for
Unsupported(v) == v.t \notin {"string", "bytes", "file"}
Offending(vs) == {n \in DOMAIN vs : Unsupported(vs[n])}

\* C13 as stated: an Exec stage that runs with a bound variable of an
\* unsupported type fails with an error that names that variable, and the
\* command is not executed.
C13_ErrorNamesVariable ==
    (last.kind = "Exec" /\ Offending(execLog.vars) # {})
        => /\ last.err # NilErr
           /\ ~ execLog.ran
           /\ "arg" \in DOMAIN last.err
           /\ last.err.arg \in Offending(execLog.vars)

\* C13 as amended: an Exec stage that runs with a bound variable of an
\* unsupported type fails with the fixed "don't know how to replace content"
\* error, which names no variable, and the command is not executed.
C13_UnsupportedTypeFails ==
    (last.kind = "Exec" /\ Offending(execLog.vars) # {})
        => /\ last.err = ErrReplace
           /\ last.out = Nil
           /\ stageErr = ErrReplace
           /\ phase # "exec"
           /\ ~ execLog.ran

C13_Witness ==
    /\ last.kind = "Exec"
    /\ last.err = ErrReplace
    /\ \E n \in DOMAIN execLog.vars :
          /\ execLog.vars[n].t = "save"
          /\ execLog.vars[n].Val.t = "string"
    /\ Returned

\* the last element of name, the one before any trailing slashes, begins
\* with the temporary-file prefix
TempNamed(name) ==
    \E k \in DOMAIN name :
        /\ name[k] = temporaryFilePrefix
        /\ k = 1 \/ name[k - 1] = "/"
        /\ \A j \in k..Len(name) :
              name[j] = "/" => \A m \in j..Len(name) : name[m] = "/"

\* C20: a returned file is tracked as Temporary when its base name begins
\* with the temporary-file prefix and as Persistent otherwise; the cleanup
\* closes the Persistent files in registration order and only then deletes
\* the Temporary files in registration order, so that Run returns with every
\* tracked file visited; no Persistent file is deleted.
C20_CleanupOrder ==
    /\ \A k \in DOMAIN removeTempFiles : TempNamed(handles[removeTempFiles[k]].name)
    /\ \A k \in DOMAIN closeFiles : ~ TempNamed(handles[closeFiles[k]].name)
    /\ (last.kind # "none" /\ last.err = NilErr /\ last.out.t = "file"
          /\ stageErr = NilErr)
          => LET l == IF TempNamed(handles[last.out.h].name)
                      THEN removeTempFiles ELSE closeFiles
             IN l # <<>> /\ l[Len(l)] = last.out.h
    /\ Len(log) <= Len(Tracked)
    /\ \A j \in DOMAIN log :
          IF j <= Len(closeFiles)
          THEN log[j].op = "close" /\ log[j].h = closeFiles[j]
          ELSE log[j].op = "remove"
                 /\ log[j].h = removeTempFiles[j - Len(closeFiles)]
    /\ Returned => Len(log) = Len(Tracked)
    /\ \A k \in DOMAIN closeFiles : handles[closeFiles[k]].name \in disk

XReturned == xpc = "returned"

\* C14: doExecute reads errOut, errErr and outBuff only when both copies have
\* ended, and an output it returns with a nil error is everything the
\* command wrote to its standard output.
C14_DrainsJoined ==
    XReturned =>
        /\ ~ racy
        /\ (xret.err = NilErr /\ xret.out.t = "bytes")
              => xret.out.s = written["out"]

\* C15: a command that could not be started, a non-zero exit status and a
\* failed copy of either stream each make doExecute return a non-nil error;
\* it never returns a nil error without an output.
C15_FailuresReported ==
    XReturned =>
        /\ (pstat = "none" \/ exitCode # 0
              \/ \E s \in Streams : seen[s] # NilErr) => xret.err # NilErr
        /\ xret.out = Nil => xret.err # NilErr

\* C16: under fair scheduling the command is never left blocked on a full
\* pipe and doExecute returns.
C16_EventuallyReturns == <>XReturned

\* ----------------------------------------------------------------- Split
\* C17: Split runs the left branch to completion before the right one; when
\* a stage of the left branch failed no right stage is executed, and the
\* Split stage fails with the error of the left branch (the error of the
\* failed stage, or of the cleanup of the left branch when that failed).
C17_SplitOrdering ==
    /\ \A k \in DOMAIN stack :
         stack[k].side = "right" => stack[k].lerr = NilErr
    /\ (last.kind = "Split" /\ last.lerr # NilErr) =>
         /\ last.side = "left"
         /\ last.err # NilErr
         /\ last.lclean \/ last.err = last.lerr

\* the files a Run tracks are as the Run left them: the handles of closeFiles
\* open, the files of removeTempFiles in the file system
Intact(cf, rf) ==
    /\ \A k \in DOMAIN cf : handles[cf[k]].open
    /\ \A k \in DOMAIN rf : handles[rf[k]].name \in disk

\* C18: every nested Run of a Split has its own variable store. Before a
\* stage of its own has run, a branch has no binding (what the enclosing Run
\* or the other branch bound is not visible in it), and the first binding a
\* branch makes is never refused as a duplicate.
C18_OwnVariableStore ==
    stack # <<>> =>
        /\ i <= 1 => vars = <<>>
        /\ (i = 2 /\ last.kind = "SaveInVar" /\ last.err = NilErr) =>
             stageErr # ErrDuplicate(last.arg)

\* C19: while a Split stage runs, the files the enclosing Run tracks stay
\* open and in the file system, and so do the files the right branch tracks
\* while its stages run: the cleanup of a branch releases nothing another
\* Run still uses.
C19_BranchesIsolated ==
    /\ \A k \in DOMAIN stack :
         Intact(stack[k].closeFiles, stack[k].removeTempFiles)
    /\ (stack # <<>> /\ phase = "exec") => Intact(closeFiles, removeTempFiles)

\* C21: both branches are given the input of the Split stage. When both
\* succeed the Split stage returns SplitResult(Left, Right) with the final
\* values of the left and the right nested Run and no error; when the left
\* branch succeeds and a stage of the right branch fails, the Split stage
\* fails with the error of the right branch (the error of the failed stage,
\* or of the cleanup of the right branch when that failed) and does not
\* return the left result.
C21_SplitResult ==
    /\ (stack # <<>> /\ i = 1) => input = Head(stack).input
    /\ (last.kind = "Split" /\ last.side = "right" /\ last.lerr = NilErr) =>
         IF last.rerr = NilErr /\ ~ last.rclean
         THEN /\ last.err = NilErr
              /\ last.out = SplitResult(last.l, last.r)
         ELSE /\ last.err # NilErr
              /\ last.rclean \/ last.err = last.rerr
              /\ last.out.t # "SplitResult"

====
